---- MODULE Spec2Model ----
(***************************************************************************)
(* POST /transfer of server.js over the User collection: a conditional     *)
(* debit of the sender, a credit of the recipient and a refund of the      *)
(* sender when the credit does not apply.  Every awaited store call is one *)
(* step; transfers interleave between their store calls, and seed.js may   *)
(* delete documents at any moment.                                         *)
(*                                                                         *)
(* A store call either applies and returns, or throws without applying.    *)
(* Amounts and balances are whole numbers of the minor currency unit.      *)
(***************************************************************************)
EXTENDS Integers, FiniteSets, Sequences, TLC

\* ---------------------------------------------------------------- bounds
MaxBalance == 1
MaxAmount == 1

\* ------------------------------------------------------------ the domain
\* Documents of the User collection, named by their _id.
Accounts == {"a1", "a2"}

\* Concurrent executions of the transfer handler.
Transfers == {"t1", "t2"}

\* Values a request carries as fromUserId / toUserId: the _id of a document,
\* a string that is no ObjectId ("bad"), or nothing at all ("").
Ids == Accounts \cup {"bad", ""}

\* req.body: amount is a number, or a value of another type (a string).
Requests ==
    [from: Ids, to: Ids, amountType: {"number"}, amount: -1..MaxAmount]
    \cup [from: Ids, to: Ids, amountType: {"string"}, amount: {1}]

NoRequest == [from |-> "", to |-> "", amountType |-> "string", amount |-> 1]

\* What the handler sends with res.status(..).json(..).
Response(status, message, fromBalance, toBalance) ==
    [status |-> status, message |-> message,
     fromBalance |-> fromBalance, toBalance |-> toBalance]

NoResponse == Response(0, "none", 0, 0)

\* A query result: a document (found, with its balance) or null.
Doc(bal) == [found |-> TRUE, balance |-> bal]
Null == [found |-> FALSE, balance |-> 0]

\* History of one execution: the store calls it issued and the writes of it
\* that the store applied.
NoHistory ==
    [probes |-> 0, debitCalls |-> 0, creditCalls |-> 0, refundCalls |-> 0,
     debited |-> 0, credited |-> 0, refunded |-> 0,
     preDebit |-> 0, preCredit |-> 0,
     debitFailed |-> FALSE, creditFailed |-> FALSE, refundFailed |-> FALSE,
     refundNull |-> FALSE]

VARIABLES
    exists,           \* exists[a]: the document a is in the collection
    balance,          \* balance[a]: its balance field
    initial,          \* the balances the run started from
    pc,               \* pc[t]: where execution t stands
    req,              \* req[t]: the request body
    fromUserExists,   \* result of User.exists({_id: fromUserId})
    toUserExists,     \* result of User.exists({_id: toUserId})
    senderUpdate,     \* result of the conditional debit
    response,         \* the response sent
    hist              \* hist[t]: history of execution t

vars == <<exists, balance, initial, pc, req, fromUserExists, toUserExists,
          senderUpdate, response, hist>>

store == <<exists, balance, initial>>

\* ------------------------------------------------------------ validation
IdMissing(id) == id = ""

AmountNotNumber(r) == r.amountType /= "number"

\* The handler without its check that the two ids differ.
SameUserUnchecked(r) == FALSE

SameUser(r) == r.from = r.to

AmountNotPositive(r) == r.amount <= 0

\* The message of the 400 response, or "ok" when the request passes.
Validate(r) ==
    IF IdMissing(r.from) \/ IdMissing(r.to) \/ AmountNotNumber(r)
    THEN "missing"
    ELSE IF SameUser(r) THEN "same"
    ELSE IF AmountNotPositive(r) THEN "amount"
    ELSE "ok"

\* Casting a request id to an ObjectId for a query fails on a malformed id.
CastFails(id) == id = "bad"

\* Each account starts empty or holding MaxBalance; the balances between
\* are reached by the transfers.
Init ==
    /\ exists = [a \in Accounts |-> TRUE]
    /\ balance \in [Accounts -> {0, MaxBalance}]
    /\ initial = balance
    /\ pc = [t \in Transfers |-> "idle"]
    /\ req = [t \in Transfers |-> NoRequest]
    /\ fromUserExists = [t \in Transfers |-> "pending"]
    /\ toUserExists = [t \in Transfers |-> "pending"]
    /\ senderUpdate = [t \in Transfers |-> Null]
    /\ response = [t \in Transfers |-> NoResponse]
    /\ hist = [t \in Transfers |-> NoHistory]

\* The handler ends by sending one response.
Respond(t, r) ==
    /\ pc' = [pc EXCEPT ![t] = "done"]
    /\ response' = [response EXCEPT ![t] = r]

\* The request r arrives at execution t and is validated.
Receive(t, r) ==
    /\ pc[t] = "idle"
    /\ req' = [req EXCEPT ![t] = r]
    /\ IF Validate(r) = "ok"
       THEN /\ pc' = [pc EXCEPT ![t] = "probing"]
            /\ UNCHANGED response
       ELSE Respond(t, Response(400, Validate(r), 0, 0))
    /\ UNCHANGED <<store, fromUserExists, toUserExists, senderUpdate, hist>>

\* A request arrives and is validated.
Start(t) == \E r \in Requests : Receive(t, r)

\* Four documents, and one transfer on each of two disjoint pairs of them.
DisjointAccounts == {"a1", "a2", "a3", "a4"}

DisjointRequests(t) ==
    [from: {IF t = "t1" THEN "a1" ELSE "a3"},
     to: {IF t = "t1" THEN "a2" ELSE "a4"},
     amountType: {"number"}, amount: 1..MaxAmount]

\* Any of the four may be missing from the collection from the start.
InitDisjoint ==
    /\ exists \in [DisjointAccounts -> BOOLEAN]
    /\ balance \in [DisjointAccounts -> 0..MaxBalance]
    /\ \A a \in DisjointAccounts : ~exists[a] => balance[a] = 0
    /\ initial = balance
    /\ pc = [t \in Transfers |-> "idle"]
    /\ req = [t \in Transfers |-> NoRequest]
    /\ fromUserExists = [t \in Transfers |-> "pending"]
    /\ toUserExists = [t \in Transfers |-> "pending"]
    /\ senderUpdate = [t \in Transfers |-> Null]
    /\ response = [t \in Transfers |-> NoResponse]
    /\ hist = [t \in Transfers |-> NoHistory]

StartDisjoint(t) == \E r \in DisjointRequests(t) : Receive(t, r)

\* ------------------------------------------------------------- the store
\* User.exists({_id: id}) on a well-formed id.
Exists(id) == exists[id]

\* A debit filter without the balance condition.
DebitFilterUnguarded(id, amount) == exists[id]

\* A debit that checks the amount against a balance read earlier.
DebitFilterStale(id, amount) == exists[id] /\ initial[id] >= amount

\* A debit filter with $gt in place of $gte.
DebitFilterStrict(id, amount) == exists[id] /\ balance[id] > amount

\* A debit filter that lost its _id: any document with the funds matches.
DebitFilterAnyDocument(id, amount) ==
    \E a \in DOMAIN exists : exists[a] /\ balance[a] >= amount

\* The filter {_id: id, balance: {$gte: amount}} of the conditional debit.
DebitFilter(id, amount) == exists[id] /\ balance[id] >= amount

\* The filter of findByIdAndUpdate(id, ..).
ByIdFilter(id) == exists[id]

\* An update that writes whether or not the filter matched.
ApplyIncUnmatched(id, matched, delta) == [balance EXCEPT ![id] = @ + delta]

\* {$inc: {balance: delta}} on the document the filter matched, if any.
ApplyInc(id, matched, delta) ==
    IF matched THEN [balance EXCEPT ![id] = @ + delta] ELSE balance

\* {new: false}: the document as it was before the update.
UpdatedOld(id, matched, bal) == IF matched THEN Doc(balance[id]) ELSE Null

\* {new: true}: the updated document, or null when nothing matched.
Updated(id, matched, bal) == IF matched THEN Doc(bal[id]) ELSE Null

\* -------------------------------------------------------- existence check
ProbeResult(id, ok) ==
    IF CastFails(id) \/ ~ok THEN "error"
    ELSE IF Exists(id) THEN "yes" ELSE "no"

\* One more probe reached the store, unless the id could not be cast.
Probed(h, id) ==
    IF CastFails(id) THEN h ELSE [h EXCEPT !.probes = @ + 1]

ProbeFrom(t) ==
    /\ pc[t] = "probing"
    /\ fromUserExists[t] = "pending"
    /\ \E ok \in BOOLEAN :
        fromUserExists' =
            [fromUserExists EXCEPT ![t] = ProbeResult(req[t].from, ok)]
    /\ hist' = [hist EXCEPT ![t] = Probed(@, req[t].from)]
    /\ UNCHANGED <<store, pc, req, toUserExists, senderUpdate, response>>

ProbeTo(t) ==
    /\ pc[t] = "probing"
    /\ toUserExists[t] = "pending"
    /\ \E ok \in BOOLEAN :
        toUserExists' =
            [toUserExists EXCEPT ![t] = ProbeResult(req[t].to, ok)]
    /\ hist' = [hist EXCEPT ![t] = Probed(@, req[t].to)]
    /\ UNCHANGED <<store, pc, req, fromUserExists, senderUpdate, response>>

\* Promise.all settles: rejected by the first probe that throws, fulfilled
\* when both have answered.
ProbesSettled(t) ==
    \/ fromUserExists[t] = "error"
    \/ toUserExists[t] = "error"
    \/ fromUserExists[t] /= "pending" /\ toUserExists[t] /= "pending"

\* An existence check that looks at the recipient first.
ExistenceOutcomeRecipientFirst(from, to) ==
    IF from = "error" \/ to = "error" THEN "server"
    ELSE IF to = "no" THEN "recipient"
    ELSE IF from = "no" THEN "sender"
    ELSE "debit"

\* The outcome of the existence check: a response, or "debit" to go on.
ExistenceOutcome(from, to) ==
    IF from = "error" \/ to = "error" THEN "server"
    ELSE IF from = "no" THEN "sender"
    ELSE IF to = "no" THEN "recipient"
    ELSE "debit"

ExistenceStatus(outcome) == IF outcome = "server" THEN 500 ELSE 404

CheckExists(t) ==
    /\ pc[t] = "probing"
    /\ ProbesSettled(t)
    /\ LET outcome == ExistenceOutcome(fromUserExists[t], toUserExists[t])
       IN  IF outcome = "debit"
           THEN /\ pc' = [pc EXCEPT ![t] = "debit"]
                /\ UNCHANGED response
           ELSE Respond(t, Response(ExistenceStatus(outcome), outcome, 0, 0))
    /\ UNCHANGED <<store, req, fromUserExists, toUserExists, senderUpdate,
                   hist>>

\* ------------------------------------------------------------------ debit
\* A handler that does not look at the result of the debit.
AfterDebitUnchecked(senderDoc) == "credit"

\* Where the handler goes with the result of the debit.
AfterDebit(senderDoc) == IF senderDoc.found THEN "credit" ELSE "insufficient"

Debit(t) ==
    /\ pc[t] = "debit"
    /\ \E ok \in BOOLEAN :
        LET id == req[t].from
            amount == req[t].amount
            matched == ok /\ DebitFilter(id, amount)
            bal == ApplyInc(id, matched, -amount)
            doc == Updated(id, matched, bal)
        IN  /\ balance' = bal
            /\ senderUpdate' = [senderUpdate EXCEPT ![t] = doc]
            /\ hist' = [hist EXCEPT ![t].debitCalls = @ + 1,
                                    ![t].debitFailed = ~ok,
                                    ![t].preDebit = balance[id],
                                    ![t].debited = balance[id] - bal[id]]
            /\ IF ~ok
               THEN Respond(t, Response(500, "server", 0, 0))
               ELSE IF AfterDebit(doc) = "credit"
               THEN /\ pc' = [pc EXCEPT ![t] = "credit"]
                    /\ UNCHANGED response
               ELSE Respond(t, Response(409, "insufficient", 0, 0))
    /\ UNCHANGED <<exists, initial, req, fromUserExists, toUserExists>>

\* ----------------------------------------------------------------- credit
\* A handler that sends nothing when the credit finds no recipient.
AfterCreditSilent(ok, recipientDoc) ==
    IF ~ok THEN "refundCatch"
    ELSE IF recipientDoc.found THEN "success" ELSE "silent"

\* Where the handler goes with the result of the credit: the success
\* response, the refund inside the try block, or the catch block.
AfterCredit(ok, recipientDoc) ==
    IF ~ok THEN "refundCatch"
    ELSE IF recipientDoc.found THEN "success" ELSE "refundTry"

Credit(t) ==
    /\ pc[t] = "credit"
    /\ \E ok \in BOOLEAN :
        LET id == req[t].to
            amount == req[t].amount
            matched == ok /\ ByIdFilter(id)
            bal == ApplyInc(id, matched, amount)
            doc == Updated(id, matched, bal)
            goes == AfterCredit(ok, doc)
        IN  /\ balance' = bal
            /\ hist' = [hist EXCEPT ![t].creditCalls = @ + 1,
                                    ![t].preCredit = balance[id],
                                    ![t].credited = bal[id] - balance[id],
                                    ![t].creditFailed = (goes /= "success")]
            /\ IF goes = "success"
               THEN Respond(t, Response(200, "success",
                                        senderUpdate[t].balance, doc.balance))
               ELSE /\ pc' = [pc EXCEPT ![t] = goes]
                    /\ UNCHANGED response
    /\ UNCHANGED <<exists, initial, req, fromUserExists, toUserExists,
                   senderUpdate>>

\* ----------------------------------------------------------------- refund
\* History after one refund call on the sender.
Refunded(h, ok, matched, delta) ==
    [h EXCEPT !.refundCalls = @ + 1,
              !.refunded = @ + delta,
              !.refundFailed = @ \/ ~ok,
              !.refundNull = @ \/ (ok /\ ~matched)]

\* A refund that goes to the other party of the transfer.
RefundTargetRecipient(r) == r.to

\* The account the refund increments.
RefundTarget(r) == r.from

\* The refund inside the try block, after the credit found no recipient.
\* Its result is not looked at; if it throws, the catch block runs.
AfterRefundTry(ok) == IF ok THEN "rolledback" ELSE "refundCatch"

RefundTry(t) ==
    /\ pc[t] = "refundTry"
    /\ \E ok \in BOOLEAN :
        LET id == RefundTarget(req[t])
            amount == req[t].amount
            matched == ok /\ ByIdFilter(id)
            bal == ApplyInc(id, matched, amount)
            goes == AfterRefundTry(ok)
        IN  /\ balance' = bal
            /\ hist' = [hist EXCEPT ![t] =
                            Refunded(@, ok, matched, bal[id] - balance[id])]
            /\ IF goes = "rolledback"
               THEN Respond(t, Response(500, "rolledback", 0, 0))
               ELSE /\ pc' = [pc EXCEPT ![t] = goes]
                    /\ UNCHANGED response
    /\ UNCHANGED <<exists, initial, req, fromUserExists, toUserExists,
                   senderUpdate>>

\* The refund of the catch block.  A null result is only logged.
AfterRefundCatch(ok) == IF ok THEN "refunded" ELSE "critical"

RefundCatch(t) ==
    /\ pc[t] = "refundCatch"
    /\ \E ok \in BOOLEAN :
        LET id == RefundTarget(req[t])
            amount == req[t].amount
            matched == ok /\ ByIdFilter(id)
            bal == ApplyInc(id, matched, amount)
        IN  /\ balance' = bal
            /\ hist' = [hist EXCEPT ![t] =
                            Refunded(@, ok, matched, bal[id] - balance[id])]
            /\ Respond(t, Response(500, AfterRefundCatch(ok), 0, 0))
    /\ UNCHANGED <<exists, initial, req, fromUserExists, toUserExists,
                   senderUpdate>>

\* ---------------------------------------------------------------- seed.js
\* User.deleteMany({}) removes the documents one at a time.
SeedDelete(a) ==
    /\ exists[a]
    /\ exists' = [exists EXCEPT ![a] = FALSE]
    /\ balance' = [balance EXCEPT ![a] = 0]
    /\ UNCHANGED <<initial, pc, req, fromUserExists, toUserExists,
                   senderUpdate, response, hist>>

\* ================================================================ claims
Done(t) == pc[t] = "done"

Status(t) == response[t].status

Message(t) == response[t].message

Amount(t) == req[t].amount

\* The transfer ended with one of the two "funds returned" responses.
Compensated(t) ==
    Done(t) /\ Status(t) = 500 /\ Message(t) \in {"rolledback", "refunded"}

\* Execution t applied no write and issued no credit or refund.
NoWrite(t) ==
    /\ hist[t].debited = 0 /\ hist[t].credited = 0 /\ hist[t].refunded = 0
    /\ hist[t].creditCalls = 0 /\ hist[t].refundCalls = 0

\* The sum of f[t] over the executions t of the set ts.
RECURSIVE Sum(_, _)
Sum(f, ts) ==
    IF ts = {} THEN 0
    ELSE LET t == CHOOSE x \in ts : TRUE
         IN  f[t] + Sum(f, ts \ {t})

\* What execution t took from account a, and what it put on it.
DebitOn(t, a) == IF req[t].from = a THEN hist[t].debited ELSE 0

IncrementOn(t, a) ==
    (IF req[t].to = a THEN hist[t].credited ELSE 0)
    + (IF req[t].from = a THEN hist[t].refunded ELSE 0)

Debits(a) == Sum([t \in Transfers |-> DebitOn(t, a)], Transfers)

Increments(a) ==
    Sum([t \in Transfers |-> IncrementOn(t, a)], Transfers)

\* C1: no account's balance is ever negative, whatever the interleaving of
\* the transfers' store calls, store failures and refunds.
NoOverdraft == \A a \in Accounts : balance[a] >= 0

\* A debit emptied the sender while another transfer is about to debit it.
NoOverdraftWitness ==
    \E t, u \in Transfers :
        /\ t /= u /\ req[t].from = req[u].from
        /\ hist[t].debited > 0 /\ exists[req[t].from]
        /\ balance[req[t].from] = 0 /\ pc[u] = "debit"

\* C2: a transfer that ends 400, 404 or 409 applied no write to any account
\* and issued no credit or refund.
ZeroEffectRejection ==
    \A t \in Transfers :
        Done(t) /\ Status(t) \in {400, 404, 409} => NoWrite(t)

\* A debit was tried and rejected for insufficient funds.
ZeroEffectRejectionWitness ==
    \E t \in Transfers :
        Done(t) /\ Status(t) = 409 /\ hist[t].debitCalls = 1
        /\ exists[req[t].from]

\* C3: a completed transfer returns the sender's balance before the debit
\* minus amount and the recipient's balance before the credit plus amount,
\* and its writes are -amount on the sender and +amount on the recipient.
ConservationOnSuccess ==
    \A t \in Transfers :
        Done(t) /\ Status(t) = 200 =>
            /\ response[t].fromBalance = hist[t].preDebit - Amount(t)
            /\ response[t].toBalance = hist[t].preCredit + Amount(t)
            /\ hist[t].debited = Amount(t)
            /\ hist[t].credited = Amount(t)
            /\ hist[t].refunded = 0
            /\ hist[t].debited = hist[t].credited + hist[t].refunded

\* Two transfers completed, the second on balances the first had changed.
ConservationOnSuccessWitness ==
    \E t, u \in Transfers :
        /\ t /= u /\ Done(t) /\ Done(u)
        /\ Status(t) = 200 /\ Status(u) = 200
        /\ hist[u].preDebit /= initial[req[u].from]

\* C4: a transfer that ends with a "funds returned" response debited the
\* sender by amount, re-credited it by amount and left the recipient alone.
CompensatedConserves ==
    \A t \in Transfers :
        Compensated(t) =>
            /\ hist[t].debited = Amount(t)
            /\ hist[t].refunded = Amount(t)
            /\ hist[t].credited = 0

\* C5: a transfer whose credit failed calls the refund exactly once.
ExactlyOneCompensation ==
    \A t \in Transfers :
        /\ hist[t].refundCalls <= 1
        /\ Done(t) /\ hist[t].creditFailed => hist[t].refundCalls = 1

\* C6: when the credit failed and a refund call failed, the transfer ends
\* with the critical response, the sender debited and nobody credited.
UncompensatedIsCritical ==
    \A t \in Transfers :
        Done(t) /\ hist[t].creditFailed /\ hist[t].refundFailed =>
            /\ Status(t) = 500 /\ Message(t) = "critical"
            /\ hist[t].debited = Amount(t)
            /\ hist[t].credited = 0
            /\ hist[t].refunded = 0

\* C7: the debits applied to an account never exceed its initial balance
\* plus the increments applied to it, and its balance is the initial balance
\* minus those debits plus those increments.
NoLostUpdate ==
    \A a \in Accounts :
        /\ Debits(a) <= initial[a] + Increments(a)
        /\ exists[a] => balance[a] = initial[a] - Debits(a) + Increments(a)

\* Two transfers drew on the same sender, which could pay only one of them.
NoLostUpdateWitness ==
    \E t, u \in Transfers :
        /\ t /= u /\ req[t].from = req[u].from /\ req[t].from \in Accounts
        /\ initial[req[t].from] = Amount(t)
        /\ hist[t].debited = Amount(t) /\ hist[t].refunded = 0
        /\ Done(u) /\ Status(u) = 409 /\ Amount(u) = Amount(t)
        /\ Increments(req[t].from) = 0

\* C8: a credit is issued only after the transfer's own debit applied, and
\* a refund only after its credit was issued and failed.
StepOrdering ==
    \A t \in Transfers :
        /\ pc[t] \in {"credit", "refundTry", "refundCatch"}
           \/ hist[t].creditCalls > 0 \/ hist[t].refundCalls > 0 =>
                /\ hist[t].debitCalls = 1
                /\ senderUpdate[t].found
                /\ hist[t].debited = Amount(t) /\ Amount(t) > 0
        /\ pc[t] \in {"refundTry", "refundCatch"} \/ hist[t].refundCalls > 0 =>
                /\ hist[t].creditCalls = 1
                /\ hist[t].creditFailed
                /\ hist[t].credited = 0

\* A refund was issued after the credit failed.
StepOrderingWitness ==
    \E t \in Transfers :
        hist[t].refundCalls > 0 /\ hist[t].creditFailed /\ hist[t].refunded > 0

\* The requests validation is to turn away.
InvalidRequest(r) ==
    \/ r.from = r.to
    \/ r.from = "" \/ r.to = ""
    \/ r.amountType /= "number"
    \/ r.amount <= 0

\* Execution t was answered 400 without a single store call.
RejectedUntouched(t) ==
    /\ Done(t) /\ Status(t) = 400
    /\ hist[t].probes = 0 /\ hist[t].debitCalls = 0
    /\ fromUserExists[t] = "pending" /\ toUserExists[t] = "pending"
    /\ NoWrite(t)

\* C9: a request with equal ids, a missing id, a non-number amount or an
\* amount <= 0 is answered 400 and makes no store call.
ValidationBeforeStorage ==
    \A t \in Transfers :
        pc[t] /= "idle" /\ InvalidRequest(req[t]) => RejectedUntouched(t)

\* A transfer of an account to itself was turned away.
ValidationBeforeStorageWitness ==
    \E t \in Transfers :
        /\ Done(t) /\ Status(t) = 400 /\ Message(t) = "same"
        /\ req[t].from \in Accounts /\ Amount(t) > 0

\* C10: a request with a malformed id ends answered 400, with no store call
\* made for it.
MalformedIdRejected ==
    \A t \in Transfers :
        Done(t) /\ "bad" \in {req[t].from, req[t].to} => RejectedUntouched(t)

\* C11: every execution ends Completed, InvalidRequest, AccountNotFound,
\* InsufficientFunds, compensated or critical; none ends with the generic
\* server error.
ClosedTaxonomy ==
    \A t \in Transfers :
        Done(t) =>
            \/ Status(t) \in {200, 400, 404, 409}
            \/ Status(t) = 500
               /\ Message(t) \in {"rolledback", "refunded", "critical"}

\* Both existence probes of execution t were answered by the store.
ProbesAnswered(t) ==
    fromUserExists[t] \in {"yes", "no"} /\ toUserExists[t] \in {"yes", "no"}

\* Execution t ended 404 with the given message and never issued a write.
NotFound(t, which) ==
    /\ Done(t) /\ Status(t) = 404 /\ Message(t) = which
    /\ hist[t].debitCalls = 0 /\ NoWrite(t)

\* C12: once both probes have answered, a missing sender ends the transfer
\* 404 naming the sender, otherwise a missing recipient ends it 404 naming
\* the recipient; neither issues a debit, credit or refund, and no other
\* execution is answered 404.
ExistencePreCheck ==
    \A t \in Transfers :
        /\ ProbesAnswered(t) /\ fromUserExists[t] = "no" =>
                \/ pc[t] = "probing" /\ hist[t].debitCalls = 0 /\ NoWrite(t)
                \/ NotFound(t, "sender")
        /\ ProbesAnswered(t) /\ fromUserExists[t] = "yes"
           /\ toUserExists[t] = "no" =>
                \/ pc[t] = "probing" /\ hist[t].debitCalls = 0 /\ NoWrite(t)
                \/ NotFound(t, "recipient")
        /\ Done(t) /\ Status(t) = 404 =>
                ProbesAnswered(t)
                /\ "no" \in {fromUserExists[t], toUserExists[t]}

\* Both accounts were gone when probed, and the sender was named.
ExistencePreCheckWitness ==
    \E t \in Transfers :
        /\ fromUserExists[t] = "no" /\ toUserExists[t] = "no"
        /\ NotFound(t, "sender")

\* C13: a debit the store answers applies, taking exactly amount, when the
\* sender is there with balance >= amount, and otherwise ends the transfer
\* 409 leaving the balances alone; 409 is sent by no other step.
DebitAdmission ==
    [][\A t \in Transfers :
        /\ hist'[t].debitCalls = hist[t].debitCalls + 1
           /\ ~hist'[t].debitFailed =>
                LET a == req[t].from
                IN  IF exists[a] /\ balance[a] >= Amount(t)
                    THEN /\ pc'[t] = "credit"
                         /\ balance' = [balance EXCEPT ![a] = @ - Amount(t)]
                    ELSE /\ pc'[t] = "done"
                         /\ response'[t].status = 409
                         /\ balance' = balance
        /\ response'[t].status = 409 /\ response[t].status /= 409 =>
                /\ pc[t] = "debit"
                /\ hist'[t].debitCalls = hist[t].debitCalls + 1
                /\ ~hist'[t].debitFailed
                /\ ~(exists[req[t].from] /\ balance[req[t].from] >= Amount(t))
      ]_vars

\* The sender passed the existence check and was gone at the debit.
DebitAdmissionWitness ==
    \E t \in Transfers :
        /\ Done(t) /\ Status(t) = 409
        /\ fromUserExists[t] = "yes" /\ ~exists[req[t].from]

\* C14: a refund call writes nothing, or adds exactly the transfer's amount
\* to the transfer's sender; it changes no other balance.
CompensationTargeting ==
    [][\A t \in Transfers :
        hist'[t].refundCalls = hist[t].refundCalls + 1 =>
            /\ req'[t] = req[t]
            /\ exists' = exists
            /\ \/ balance' = balance
               \/ balance' = [balance EXCEPT ![req[t].from] = @ + Amount(t)]
      ]_vars

\* A refund put the sender back to its balance before the debit.
CompensationTargetingWitness ==
    \E t \in Transfers :
        /\ Compensated(t) /\ hist[t].refunded = Amount(t)
        /\ exists[req[t].from]
        /\ balance[req[t].from] = hist[t].preDebit
        /\ balance[req[t].to] = hist[t].preCredit

\* C15: a "funds returned" response is sent only when the refund matched
\* the sender and added amount to its balance.
CompensatedMeansRefunded ==
    \A t \in Transfers :
        Compensated(t) =>
            ~hist[t].refundNull /\ hist[t].refunded = Amount(t)

\* Execution t has debited its sender and not yet credited or refunded.
InFlight(t) == pc[t] \in {"credit", "refundTry", "refundCatch"}

\* Execution t ended with the critical response.
Uncompensated(t) == Done(t) /\ Status(t) = 500 /\ Message(t) = "critical"

\* The amount execution t holds outside every balance.
Held(t) == IF InFlight(t) \/ Uncompensated(t) THEN Amount(t) ELSE 0

TotalBalance == Sum(balance, Accounts)

TotalInitial == Sum(initial, Accounts)

TotalHeld == Sum([t \in Transfers |-> Held(t)], Transfers)

OneResponse ==
    /\ \A t \in Transfers : (pc[t] /= "idle") ~> Done(t)
    /\ [][\A t \in Transfers :
            response[t] /= NoResponse => response'[t] = response[t]]_vars
    /\ [](\A t \in Transfers : Done(t) <=> response[t] /= NoResponse)

\* Both refunds failed, and the critical response went out.
OneResponseWitness ==
    \E t \in Transfers :
        /\ Uncompensated(t) /\ hist[t].refundCalls = 2
        /\ response[t] /= NoResponse

\* What execution t comes to when it runs with no other execution, given
\* the balances it started from and the store calls of it that threw.
AloneOutcome(t) ==
    IF fromUserExists[t] = "error" \/ toUserExists[t] = "error" THEN "server"
    ELSE IF ~exists[req[t].from] THEN "sender"
    ELSE IF ~exists[req[t].to] THEN "recipient"
    ELSE IF hist[t].debitFailed THEN "server"
    ELSE IF initial[req[t].from] < Amount(t) THEN "insufficient"
    ELSE IF ~hist[t].creditFailed THEN "success"
    ELSE IF ~hist[t].refundFailed THEN "refunded"
    ELSE "critical"

AloneResponse(t) ==
    LET o == AloneOutcome(t)
    IN  IF o = "success"
        THEN Response(200, o, initial[req[t].from] - Amount(t),
                      initial[req[t].to] + Amount(t))
        ELSE Response(IF o = "insufficient" THEN 409
                      ELSE IF o \in {"sender", "recipient"} THEN 404
                      ELSE 500, o, 0, 0)

AloneSender(t) ==
    IF AloneOutcome(t) \in {"success", "critical"}
    THEN initial[req[t].from] - Amount(t)
    ELSE initial[req[t].from]

AloneRecipient(t) ==
    IF AloneOutcome(t) = "success"
    THEN initial[req[t].to] + Amount(t)
    ELSE initial[req[t].to]

\* C16: of two transfers on disjoint pairs of accounts, each ends, however
\* their store calls interleave, with the response and the two balances it
\* comes to when it runs alone.
DisjointIndependence ==
    \A t \in Transfers :
        Done(t) =>
            /\ response[t] = AloneResponse(t)
            /\ balance[req[t].from] = AloneSender(t)
            /\ balance[req[t].to] = AloneRecipient(t)

\* Both transfers ran: one completed, the other was refunded.
DisjointIndependenceWitness ==
    \E t, u \in Transfers :
        /\ t /= u /\ Done(t) /\ Done(u)
        /\ Status(t) = 200 /\ Message(u) = "refunded"
        /\ hist[u].creditCalls = 1 /\ hist[t].creditCalls = 1

Next ==
    \/ \E t \in Transfers : Start(t)
    \/ \E t \in Transfers : ProbeFrom(t)
    \/ \E t \in Transfers : ProbeTo(t)
    \/ \E t \in Transfers : CheckExists(t)
    \/ \E t \in Transfers : Debit(t)
    \/ \E t \in Transfers : Credit(t)
    \/ \E t \in Transfers : RefundTry(t)
    \/ \E t \in Transfers : RefundCatch(t)
    \/ \E a \in Accounts : SeedDelete(a)

Spec == Init /\ [][Next]_vars

\* The transfers alone, over a collection nobody deletes from: the credit
\* then always finds the recipient the existence check saw.
NextFixed ==
    \/ \E t \in Transfers : Start(t)
    \/ \E t \in Transfers : ProbeFrom(t)
    \/ \E t \in Transfers : ProbeTo(t)
    \/ \E t \in Transfers : CheckExists(t)
    \/ \E t \in Transfers : Debit(t)
    \/ \E t \in Transfers : Credit(t)
    \/ \E t \in Transfers : RefundCatch(t)

SpecFixed == Init /\ [][NextFixed]_vars

\* Two transfers on disjoint pairs of a collection nobody deletes from.
NextDisjoint ==
    \/ \E t \in Transfers : StartDisjoint(t)
    \/ \E t \in Transfers : ProbeFrom(t)
    \/ \E t \in Transfers : ProbeTo(t)
    \/ \E t \in Transfers : CheckExists(t)
    \/ \E t \in Transfers : Debit(t)
    \/ \E t \in Transfers : Credit(t)
    \/ \E t \in Transfers : RefundCatch(t)

SpecDisjoint == InitDisjoint /\ [][NextDisjoint]_vars

\* One step of execution t after its request has arrived.
Step(t) ==
    \/ ProbeFrom(t)
    \/ ProbeTo(t)
    \/ CheckExists(t)
    \/ Debit(t)
    \/ Credit(t)
    \/ RefundTry(t)
    \/ RefundCatch(t)

\* Every store call returns or throws, and the event loop then runs the
\* handler's continuation.
Fairness == \A t \in Transfers : WF_vars(Step(t))

\* The collection as seeded: every account holds funds.
InitFair == Init /\ \A a \in Accounts : balance[a] = MaxBalance

SpecFair == InitFair /\ [][Next]_vars /\ Fairness
====
